---- MODULE Spec2Model ----
(***************************************************************************)
(* change_flare: a dynamic-DNS updater.  Updater::run (src/core.rs)        *)
(* resolves the host's external address, fetches the provider's records    *)
(* and updates the records whose content differs; CloudFlareApi            *)
(* (src/cloudflare/mod.rs) is the provider, CloudFlareConfig its           *)
(* configuration.                                                          *)
(*                                                                         *)
(* Representation.                                                         *)
(*   String            a TLA+ string; the CLOUDFLARE_POLL_RATE text, which  *)
(*                     the code parses, is a sequence of one-character      *)
(*                     strings so that the parse is computed                *)
(*   Option<T>         [some |-> BOOLEAN, val |-> T]                        *)
(*   Result<T, E>      [ok |-> BOOLEAN, val |-> T]                          *)
(*   IpAddr            [family |-> "V4" | "V6", segs |-> tuple of numbers]  *)
(*   environment var   [set |-> BOOLEAN, val |-> its text]                  *)
(***************************************************************************)
EXTENDS Integers, Sequences, FiniteSets, TLC

VARIABLES
  pc,          \* position of the program: "start", then a position of Updater::run
  env,         \* the process environment after dotenv: [poll, key, zone]
  env_reads,   \* how many times each environment variable has been read
  ctor,        \* how the provider was constructed, with its arguments
  config,      \* CloudFlareApi.config
  records,     \* CloudFlareApi.records, the provider's cached record set
  remote,      \* the zone's records at the DNS provider
  current_ip,  \* run: the SocketAddr check_ip returned this cycle
  snapshot,    \* run: the local `records` (clone of get_records' return value)
  idx,         \* run: position of the for loop in snapshot (1-based)
  log,         \* the calls run has made since (and including) the last check_ip
  prev_sleeps, \* <<>> until check_ip is called a second time, then <<n>>: the
               \* number of sleeps between the last two calls of check_ip
  eq_call,     \* the last direct call of Record::eq: <<>> or <<[self, other, result]>>
  prev_cycle,  \* history, kept under SpecCycles: <<>> until a cycle of run has
               \* ended, then <<c>>: what the last ended cycle did (see CycleDone)
  last_fetch   \* the `result` of the last response get_records accepted, <<>> if none

vars == <<pc, env, env_reads, ctor, config, records, remote, current_ip,
          snapshot, idx, log, prev_sleeps, eq_call, prev_cycle, last_fetch>>

----------------------------------------------------------------------------
(* Bounds of the model *)

\* the largest poll_rate argument tried on CloudFlareConfig::new
MaxPollArg == 70
\* the largest number of records in the zone
MaxRecords == 2

----------------------------------------------------------------------------
(* Option, Result *)

Some(v) == [some |-> TRUE, val |-> v]
None == [some |-> FALSE, val |-> ""]
Ok(v) == [ok |-> TRUE, val |-> v]
Err == [ok |-> FALSE, val |-> 0]

Max(a, b) == IF a >= b THEN a ELSE b

----------------------------------------------------------------------------
(* str::parse::<usize>: an optional leading "+", then one or more decimal   *)
(* digits, no other character.  (A value above usize::MAX, 2^64 - 1, is an  *)
(* error too; the texts of the model have at most three digits.)            *)

DigitChars == {"0", "1", "2", "3", "4", "5", "6", "7", "8", "9"}

DigitVal(c) ==
  CASE c = "0" -> 0 [] c = "1" -> 1 [] c = "2" -> 2 [] c = "3" -> 3
    [] c = "4" -> 4 [] c = "5" -> 5 [] c = "6" -> 6 [] c = "7" -> 7
    [] c = "8" -> 8 [] c = "9" -> 9

RECURSIVE DecimalValue(_)
DecimalValue(s) ==
  IF s = <<>> THEN 0
  ELSE 10 * DecimalValue(SubSeq(s, 1, Len(s) - 1)) + DigitVal(s[Len(s)])

parse_usize(s) ==
  LET digits == IF s # <<>> /\ s[1] = "+" THEN Tail(s) ELSE s
  IN  IF digits = <<>> THEN Err
      ELSE IF \E i \in 1..Len(digits) : digits[i] \notin DigitChars THEN Err
      ELSE Ok(DecimalValue(digits))

----------------------------------------------------------------------------
(* The environment *)

Unset(v) == [set |-> FALSE, val |-> v]
SetTo(v) == [set |-> TRUE, val |-> v]

\* CLOUDFLARE_POLL_RATE: unset, numbers below and above the floor, and texts
\* that do not parse
PollRateTexts ==
  { <<"1", "0">>, <<"5", "9">>, <<"6", "0">>, <<"6", "0", "0">>, <<"+", "9", "0">>,
    <<"0">>, <<>>, <<"a", "b", "c">>, <<"-", "5">>, <<" ", "6", "0">>,
    <<"9", "0", "s">> }
EnvPollRates == {Unset(<<>>)} \cup {SetTo(t) : t \in PollRateTexts}
EnvApiKeys == {Unset(""), SetTo(""), SetTo("env_key")}
EnvZoneIds == {Unset(""), SetTo("zone_1")}

\* env::var(name): Err when the variable is not set
env_var(e, name) == IF e[name].set THEN Ok(e[name].val) ELSE Err

NoReads == [poll |-> 0, key |-> 0, zone |-> 0]

----------------------------------------------------------------------------
(* CloudFlareConfig *)

DEFAULT_POLL_RATE == 300
MIN_POLL_RATE == 60

\* impl Default for CloudFlareConfig: every field from the environment.  The
\* result carries the count of environment reads made so far.
CloudFlareConfig_default(e, reads) ==
  LET pv == env_var(e, "poll")
      parsed == IF pv.ok THEN parse_usize(pv.val) ELSE Err
      poll_rate == IF parsed.ok THEN parsed.val ELSE DEFAULT_POLL_RATE
      kv == env_var(e, "key")
      api_key == IF kv.ok THEN kv.val ELSE ""
      zv == env_var(e, "zone")
      zone_id == IF zv.ok THEN zv.val ELSE ""
  IN  [config |-> [poll_rate |-> poll_rate, api_key |-> api_key, zone_id |-> zone_id],
       reads |-> [poll |-> reads.poll + 1, key |-> reads.key + 1,
                  zone |-> reads.zone + 1]]

\* CloudFlareConfig::new as it would be with min in place of max
CloudFlareConfig_new_min(poll_rate, api_key, e, reads) ==
  LET d == CloudFlareConfig_default(e, reads)
  IN  [config |-> [poll_rate |-> IF poll_rate <= MIN_POLL_RATE THEN poll_rate
                                 ELSE MIN_POLL_RATE,
                   api_key |-> IF api_key = "" THEN d.config.api_key ELSE api_key,
                   zone_id |-> d.config.zone_id],
       reads |-> d.reads]

\* CloudFlareConfig::new(poll_rate, api_key)
CloudFlareConfig_new(poll_rate, api_key, e, reads) ==
  LET clamped == Max(poll_rate, MIN_POLL_RATE)
      d1 == CloudFlareConfig_default(e, reads)
      key == IF api_key = "" THEN d1.config.api_key ELSE api_key
      reads1 == IF api_key = "" THEN d1.reads ELSE reads
      d2 == CloudFlareConfig_default(e, reads1)
  IN  [config |-> [poll_rate |-> clamped, api_key |-> key,
                   zone_id |-> d2.config.zone_id],
       reads |-> d2.reads]

\* CloudFlareApi::get_poll_rate
get_poll_rate(cfg) == cfg.poll_rate

----------------------------------------------------------------------------
(* IpAddr and its text forms *)

V4(a, b, c, d) == [family |-> "V4", segs |-> <<a, b, c, d>>]
V6(s) == [family |-> "V6", segs |-> s]

IP_5 == V4(203, 0, 113, 5)
IP_9 == V4(203, 0, 113, 9)
IP_LOOP6 == V6(<<0, 0, 0, 0, 0, 0, 0, 1>>)

\* str::parse::<IpAddr> on the texts the model uses: an IPv6 address has more
\* than one text form, a host name and the empty text are errors
parse_ip(s) ==
  CASE s = "203.0.113.5" -> Ok(IP_5)
    [] s = "203.0.113.9" -> Ok(IP_9)
    [] s = "::1" -> Ok(IP_LOOP6)
    [] s = "0:0:0:0:0:0:0:1" -> Ok(IP_LOOP6)
    [] OTHER -> Err

\* IpAddr::to_string: the canonical text
ip_to_string(ip) ==
  CASE ip = IP_5 -> "203.0.113.5"
    [] ip = IP_9 -> "203.0.113.9"
    [] ip = IP_LOOP6 -> "::1"

\* the addresses the STUN exchange may report, with the port it reports
ResolvedAddrs == {[ip |-> a, port |-> 54321] : a \in {IP_9, IP_LOOP6}}
NoAddr == [ip |-> V4(0, 0, 0, 0), port |-> 0]

\* SocketAddr::ip
ip_of(addr) == addr.ip

----------------------------------------------------------------------------
(* CloudFlareRecord and the Record trait *)

\* impl Record for CloudFlareRecord
get_id(r) == r.record_id
get_name(r) == r.name
get_content(r) == r.content

\* update_content as it would be if it built a fresh record, losing the id
update_content_loses_id(r, new_content) ==
  [r EXCEPT !.content = new_content, !.record_id = None]

\* CloudFlareRecord::update_content: content replaced, every other field cloned
update_content(r, new_content) == [r EXCEPT !.content = new_content]

\* Record::eq as it would be if it compared the ttl as well
Record_eq_with_ttl(a, b) ==
  /\ a.content = b.content
  /\ a.record_id = b.record_id
  /\ a.name = b.name
  /\ a.ttl = b.ttl

\* Record::eq, the trait's default method
Record_eq(a, b) ==
  /\ get_content(a) = get_content(b)
  /\ get_id(a) = get_id(b)
  /\ get_name(a) = get_name(b)

----------------------------------------------------------------------------
(* The DNS provider: the zone's records as the REST API reports them        *)
(* (CloudflareResult: id, name, content, type, ttl, proxied, zone_id).      *)

RecordIds == <<"rec_1", "rec_2", "rec_3", "rec_4">>
RecordNames == <<"home.example.com", "www.example.com", "vpn.example.com",
                 "mail.example.com">>

\* what a record of the zone may hold beside its id and name: A records that
\* differ in content, ttl and proxied, an AAAA record whose address is not in
\* canonical text, and a CNAME record, whose content is no address
RecordShapes ==
  { [content |-> "203.0.113.5", type |-> "A", ttl |-> 1, proxied |-> FALSE],
    [content |-> "203.0.113.9", type |-> "A", ttl |-> 300, proxied |-> TRUE],
    [content |-> "0:0:0:0:0:0:0:1", type |-> "AAAA", ttl |-> 300, proxied |-> FALSE],
    [content |-> "home.example.com", type |-> "CNAME", ttl |-> 1, proxied |-> FALSE] }

ZoneRecord(k, shape) ==
  [id |-> RecordIds[k], name |-> RecordNames[k], content |-> shape.content,
   type |-> shape.type, ttl |-> shape.ttl, proxied |-> shape.proxied,
   zone_id |-> "zone_1"]

\* the zones the model starts from: up to MaxRecords records, ids distinct
Zones ==
  UNION { { [k \in 1..n |-> ZoneRecord(k, f[k])] : f \in [1..n -> RecordShapes] }
          : n \in 0..MaxRecords }

\* HeaderValue::from_str fails on a text with a control character; the key
\* "bad<LF>key" stands for a credential that holds a line feed
header_value_ok(text_key) == text_key # "bad<LF>key"

\* the replies a GET of the zone's records may meet, once the request is sent
FetchReplies ==
  {"transport_error", "body_unreadable", "invalid_json", "unsuccessful", "success"}

----------------------------------------------------------------------------
(* CloudFlareApi *)

\* the filter as it would be if an entry whose content does not parse ended it
RECURSIVE filter_map_results_stops(_)
filter_map_results_stops(result) ==
  IF result = <<>> THEN <<>>
  ELSE LET r == Head(result)
           content == parse_ip(r.content)
       IN  IF ~content.ok THEN <<>>
           ELSE <<[content |-> content.val, name |-> r.name, record_type |-> r.type,
                   ttl |-> r.ttl, proxied |-> r.proxied, zone_id |-> r.zone_id,
                   record_id |-> Some(r.id)]>> \o filter_map_results_stops(Tail(result))

\* get_records, lines 81-103: the response's entries whose content parses, in
\* the response's order, each with its id as record_id
RECURSIVE filter_map_results(_)
filter_map_results(result) ==
  IF result = <<>> THEN <<>>
  ELSE LET r == Head(result)
           content == parse_ip(r.content)
           rest == filter_map_results(Tail(result))
       IN  IF ~content.ok THEN rest
           ELSE <<[content |-> content.val, name |-> r.name, record_type |-> r.type,
                   ttl |-> r.ttl, proxied |-> r.proxied, zone_id |-> r.zone_id,
                   record_id |-> Some(r.id)]>> \o rest

\* how a call of get_records ends: at the authorization header when the key is
\* no header value (no request is sent), else as the reply decides
get_records_outcome(cfg, reply) ==
  IF ~header_value_ok(cfg.api_key) THEN "invalid_api_key" ELSE reply

\* get_records as it would be without the check of `success`
get_records_no_success_check(cfg, cache, reply, result) ==
  IF ~header_value_ok(cfg.api_key) THEN cache
  ELSE IF reply \in {"transport_error", "body_unreadable", "invalid_json"} THEN cache
  ELSE filter_map_results(result)

\* CloudFlareApi::get_records: the cached record set after the call, which is
\* also what the call returns (&self.records)
get_records(cfg, cache, reply, result) ==
  IF get_records_outcome(cfg, reply) = "invalid_api_key" THEN cache
  ELSE IF reply = "transport_error" THEN cache
  ELSE IF reply = "body_unreadable" THEN cache
  ELSE IF reply = "invalid_json" THEN cache
  ELSE IF reply = "unsuccessful" THEN cache
  ELSE filter_map_results(result)

\* update_record as it would be if a failed call gave back a record without id
update_record_blank_on_failure(cfg, record, put_ok) ==
  IF put_ok THEN record ELSE [record EXCEPT !.record_id = None]

\* CloudFlareApi::update_record: the value returned, on success and on failure
update_record(cfg, record, put_ok) ==
  IF put_ok THEN record ELSE record

\* the PUT as it would be if the request body left out the content
RECURSIVE zone_put_without_content(_, _)
zone_put_without_content(zone, record) ==
  IF zone = <<>> THEN <<>>
  ELSE LET z == Head(zone)
       IN  <<IF get_id(record).some /\ get_id(record).val = z.id
             THEN [z EXCEPT !.name = record.name, !.proxied = record.proxied,
                            !.type = record.record_type, !.ttl = record.ttl]
             ELSE z>> \o zone_put_without_content(Tail(zone), record)

\* the PUT of update_record at the provider: the record of that id is
\* overwritten with the body's content, name, proxied, type and ttl
RECURSIVE zone_put(_, _)
zone_put(zone, record) ==
  IF zone = <<>> THEN <<>>
  ELSE LET z == Head(zone)
       IN  <<IF get_id(record).some /\ get_id(record).val = z.id
             THEN [z EXCEPT !.content = ip_to_string(record.content),
                            !.name = record.name, !.proxied = record.proxied,
                            !.type = record.record_type, !.ttl = record.ttl]
             ELSE z>> \o zone_put(Tail(zone), record)

\* whether the PUT can end 2xx: the request carries a well-formed bearer token
\* and names a record of the zone
put_can_succeed(cfg, zone, record) ==
  /\ header_value_ok(cfg.api_key)
  /\ get_id(record).some
  /\ \E k \in 1..Len(zone) : zone[k].id = get_id(record).val

----------------------------------------------------------------------------
(* Construction *)

NotConstructed == [kind |-> "none", poll_rate |-> 0, api_key |-> ""]
NoConfig == [poll_rate |-> 0, api_key |-> "", zone_id |-> ""]

\* the arguments main passes: Default::default() of usize and of String
MainArgs == [poll_rate |-> 0, api_key |-> ""]

\* the arguments a caller of Updater::new may pass, main's among them
ApiKeyArgs == {"", "arg_key", "bad<LF>key"}
NewArgs ==
  {MainArgs} \cup {[poll_rate |-> 600, api_key |-> "arg_key"],
                   [poll_rate |-> 30, api_key |-> "bad<LF>key"]}

\* every poll_rate up to the bound with every key
WideNewArgs == [poll_rate : 0..MaxPollArg, api_key : ApiKeyArgs]

\* the environment the run loop is checked in
RunEnvs ==
  { [poll |-> SetTo(<<"1", "0">>), key |-> SetTo("env_key"), zone |-> SetTo("zone_1")] }

WideEnvs == [poll : EnvPollRates, key : EnvApiKeys, zone : EnvZoneIds]

\* Updater::new -> CloudFlareApi::new -> CloudFlareConfig::new
Updater_new(poll_rate, api_key) ==
  /\ pc = "start"
  /\ LET made == CloudFlareConfig_new(poll_rate, api_key, env, env_reads)
     IN  /\ config' = made.config
         /\ env_reads' = made.reads
  /\ records' = <<>>
  /\ ctor' = [kind |-> "new", poll_rate |-> poll_rate, api_key |-> api_key]
  /\ pc' = "check_ip"
  /\ UNCHANGED <<env, remote, current_ip, snapshot, idx, log, prev_sleeps, eq_call,
                 prev_cycle, last_fetch>>

\* #[derive(Default)] on CloudFlareApi: config from CloudFlareConfig::default,
\* no records; the value is not owned by an Updater
CloudFlareApi_default ==
  /\ pc = "start"
  /\ LET made == CloudFlareConfig_default(env, env_reads)
     IN  /\ config' = made.config
         /\ env_reads' = made.reads
  /\ records' = <<>>
  /\ ctor' = [kind |-> "default", poll_rate |-> 0, api_key |-> ""]
  /\ pc' = "standalone"
  /\ UNCHANGED <<env, remote, current_ip, snapshot, idx, log, prev_sleeps, eq_call,
                 prev_cycle, last_fetch>>

----------------------------------------------------------------------------
(* Updater::run *)

Call(op, out, arg, ret, pos, secs) ==
  [op |-> op, out |-> out, arg |-> arg, ret |-> ret, pos |-> pos, secs |-> secs]

RECURSIVE CountOp(_, _)
CountOp(l, op) ==
  IF l = <<>> THEN 0
  ELSE (IF Head(l).op = op THEN 1 ELSE 0) + CountOp(Tail(l), op)

\* the candidates of the log's calls of update_record that failed, in order
RECURSIVE FailedCandidates(_)
FailedCandidates(l) ==
  IF l = <<>> THEN <<>>
  ELSE (IF Head(l).op = "update_record" /\ Head(l).out = "failed"
        THEN Head(l).arg ELSE <<>>) \o FailedCandidates(Tail(l))

\* what a cycle that ends with log l did: whether check_ip gave an address and
\* which, whether get_records took a response, and the candidates whose
\* update_record failed
CycleDone(l, addr) ==
  [resolved |-> l[1].out = "ok",
   ip |-> ip_of(addr),
   fetched |-> \E j \in 1..Len(l) : l[j].op = "get_records" /\ l[j].out = "success",
   failed |-> FailedCandidates(l)]

\* at a call of check_ip: the sleeps since the call before, if there was one
SleepsSinceCheck == IF log = <<>> THEN <<>> ELSE <<CountOp(log, "sleep")>>

\* line 26, Ok arm: the STUN exchange reports addr
Run_CheckIpOk(addr) ==
  /\ pc = "check_ip"
  /\ current_ip' = addr
  /\ log' = <<Call("check_ip", "ok", <<>>, <<>>, 0, 0)>>
  /\ prev_sleeps' = SleepsSinceCheck
  /\ pc' = "get_records"
  /\ UNCHANGED <<env, env_reads, ctor, config, records, remote, snapshot, idx,
                 eq_call, prev_cycle, last_fetch>>

\* the Err arm as it would be if it logged and fell through to the record work
Run_CheckIpErr_falls_through ==
  /\ pc = "check_ip"
  /\ current_ip' = NoAddr
  /\ log' = <<Call("check_ip", "err", <<>>, <<>>, 0, 0)>>
  /\ prev_sleeps' = SleepsSinceCheck
  /\ pc' = "get_records"
  /\ UNCHANGED <<env, env_reads, ctor, config, records, remote, snapshot, idx,
                 eq_call, last_fetch>>

\* lines 28-31, Err arm: log and `continue`.  The cycle ends here; the step
\* is taken together with KeepCycleHistory or RecordCycle.
Run_CheckIpErr ==
  /\ pc = "check_ip"
  /\ current_ip' = NoAddr
  /\ log' = <<Call("check_ip", "err", <<>>, <<>>, 0, 0)>>
  /\ prev_sleeps' = SleepsSinceCheck
  /\ pc' = "check_ip"
  /\ UNCHANGED <<env, env_reads, ctor, config, records, remote, snapshot, idx,
                 eq_call, last_fetch>>

\* where run goes once the for loop stands at position k
AfterPosition(snap, k) == IF k > Len(snap) THEN "sleep" ELSE "for"

\* line 33 as it would be if the clone were taken before the fetch
Run_GetRecords_clones_first(reply) ==
  /\ pc = "get_records"
  /\ records' = get_records(config, records, reply, remote)
  /\ snapshot' = records
  /\ idx' = 1
  /\ log' = Append(log, Call("get_records", get_records_outcome(config, reply),
                             <<>>, <<>>, 0, 0))
  /\ last_fetch' = IF get_records_outcome(config, reply) = "success"
                    THEN remote ELSE last_fetch
  /\ pc' = AfterPosition(snapshot', 1)
  /\ UNCHANGED <<env, env_reads, ctor, config, remote, current_ip, prev_sleeps,
                 eq_call, prev_cycle>>

\* line 33: self.api.get_records().clone()
Run_GetRecords(reply) ==
  /\ pc = "get_records"
  /\ records' = get_records(config, records, reply, remote)
  /\ snapshot' = records'
  /\ idx' = 1
  /\ log' = Append(log, Call("get_records", get_records_outcome(config, reply),
                             <<>>, <<>>, 0, 0))
  /\ last_fetch' = IF get_records_outcome(config, reply) = "success"
                    THEN remote ELSE last_fetch
  /\ pc' = AfterPosition(snapshot', 1)
  /\ UNCHANGED <<env, env_reads, ctor, config, remote, current_ip, prev_sleeps,
                 eq_call, prev_cycle>>

\* lines 35-41: the clone of the record, its content replaced when it differs
\* from the resolved address
record_clone_for(record, addr) ==
  IF get_content(record) # ip_of(addr)
  THEN update_content(record, ip_of(addr))
  ELSE record

\* the condition of the update as it would be if every record were sent
must_update_always(record, addr) == TRUE

\* the condition of the update as it would be if run gave up on a candidate
\* whose update failed in the cycle before
must_update_gives_up(record, addr) ==
  /\ ~Record_eq(record_clone_for(record, addr), record)
  /\ IF prev_cycle = <<>>
     THEN TRUE
     ELSE \A i \in 1..Len(prev_cycle[1].failed) :
            prev_cycle[1].failed[i] # record_clone_for(record, addr)

\* the condition of the update as it would be if records of the other address
\* family were passed over
must_update_same_family(record, addr) ==
  /\ ~Record_eq(record_clone_for(record, addr), record)
  /\ (record.record_type = "A") <=> (ip_of(addr).family = "V4")

\* line 42: the condition of the update
must_update(record, addr) == ~Record_eq(record_clone_for(record, addr), record)

\* lines 34-45, one record for which update_record is not called
Run_ForSkip ==
  /\ pc = "for"
  /\ ~must_update(snapshot[idx], current_ip)
  /\ idx' = idx + 1
  /\ pc' = AfterPosition(snapshot, idx + 1)
  /\ UNCHANGED <<env, env_reads, ctor, config, records, remote, current_ip,
                 snapshot, log, prev_sleeps, eq_call, prev_cycle, last_fetch>>

\* the call of update_record as it would be if a failed PUT were unwrapped:
\* the worker panics and run stops
Run_ForUpdate_panics(put_ok) ==
  /\ pc = "for"
  /\ must_update(snapshot[idx], current_ip)
  /\ LET candidate == record_clone_for(snapshot[idx], current_ip)
     IN  /\ put_ok => put_can_succeed(config, remote, candidate)
         /\ remote' = IF put_ok THEN zone_put(remote, candidate) ELSE remote
         /\ log' = Append(log, Call("update_record", IF put_ok THEN "ok" ELSE "failed",
                                    <<candidate>>, <<candidate>>, idx, 0))
  /\ idx' = idx + 1
  /\ pc' = IF put_ok THEN AfterPosition(snapshot, idx + 1) ELSE "panicked"
  /\ UNCHANGED <<env, env_reads, ctor, config, records, current_ip, snapshot,
                 prev_sleeps, eq_call, prev_cycle, last_fetch>>

\* the call of update_record as it would be if run stored the record that
\* update_record returns in the provider's cache
Run_ForUpdate_writes_back(put_ok) ==
  /\ pc = "for"
  /\ must_update(snapshot[idx], current_ip)
  /\ LET candidate == record_clone_for(snapshot[idx], current_ip)
     IN  /\ put_ok => put_can_succeed(config, remote, candidate)
         /\ remote' = IF put_ok THEN zone_put(remote, candidate) ELSE remote
         /\ records' = [records EXCEPT ![idx] = update_record(config, candidate, put_ok)]
         /\ log' = Append(log, Call("update_record", IF put_ok THEN "ok" ELSE "failed",
                                    <<candidate>>,
                                    <<update_record(config, candidate, put_ok)>>,
                                    idx, 0))
  /\ idx' = idx + 1
  /\ pc' = AfterPosition(snapshot, idx + 1)
  /\ UNCHANGED <<env, env_reads, ctor, config, current_ip, snapshot,
                 prev_sleeps, eq_call, prev_cycle, last_fetch>>

\* lines 34-45, one record for which update_record is called; the PUT ends 2xx
\* (put_ok) or fails
Run_ForUpdate(put_ok) ==
  /\ pc = "for"
  /\ must_update(snapshot[idx], current_ip)
  /\ LET candidate == record_clone_for(snapshot[idx], current_ip)
     IN  /\ put_ok => put_can_succeed(config, remote, candidate)
         /\ remote' = IF put_ok THEN zone_put(remote, candidate) ELSE remote
         /\ log' = Append(log, Call("update_record", IF put_ok THEN "ok" ELSE "failed",
                                    <<candidate>>,
                                    <<update_record(config, candidate, put_ok)>>,
                                    idx, 0))
  /\ idx' = idx + 1
  /\ pc' = AfterPosition(snapshot, idx + 1)
  /\ UNCHANGED <<env, env_reads, ctor, config, records, current_ip, snapshot,
                 prev_sleeps, eq_call, prev_cycle, last_fetch>>

\* the end of the iteration as it would be if the sleep were started and not
\* waited for: the next iteration begins at once
Run_Sleep_not_awaited ==
  /\ pc = "sleep"
  /\ current_ip' = NoAddr
  /\ snapshot' = <<>>
  /\ idx' = 1
  /\ pc' = "check_ip"
  /\ UNCHANGED <<env, env_reads, ctor, config, records, remote, prev_sleeps,
                 eq_call, last_fetch, log>>

\* line 46: thread::sleep(poll rate); the iteration's locals are dropped.  The
\* cycle ends here; the step is taken together with KeepCycleHistory or
\* RecordCycle.
Run_Sleep ==
  /\ pc = "sleep"
  /\ log' = Append(log, Call("sleep", "", <<>>, <<>>, 0, get_poll_rate(config)))
  /\ current_ip' = NoAddr
  /\ snapshot' = <<>>
  /\ idx' = 1
  /\ pc' = "check_ip"
  /\ UNCHANGED <<env, env_reads, ctor, config, records, remote, prev_sleeps,
                 eq_call, last_fetch>>

----------------------------------------------------------------------------
(* The program: construction, then Updater::run *)

InitIn(envs, zones) ==
  /\ pc = "start"
  /\ env \in envs
  /\ env_reads = NoReads
  /\ ctor = NotConstructed
  /\ config = NoConfig
  /\ records = <<>>
  /\ remote \in zones
  /\ current_ip = NoAddr
  /\ snapshot = <<>>
  /\ idx = 1
  /\ log = <<>>
  /\ prev_sleeps = <<>>
  /\ eq_call = <<>>
  /\ prev_cycle = <<>>
  /\ last_fetch = <<>>

Init == InitIn(RunEnvs, Zones)

\* the step that ends a cycle, without and with the history of the cycle
KeepCycleHistory == UNCHANGED prev_cycle
RecordCycle == prev_cycle' = <<CycleDone(log', current_ip)>>

Next ==
  \/ \E a \in NewArgs : Updater_new(a.poll_rate, a.api_key)
  \/ CloudFlareApi_default
  \/ \E addr \in ResolvedAddrs : Run_CheckIpOk(addr)
  \/ Run_CheckIpErr /\ KeepCycleHistory
  \/ \E reply \in FetchReplies : Run_GetRecords(reply)
  \/ Run_ForSkip
  \/ \E put_ok \in BOOLEAN : Run_ForUpdate(put_ok)
  \/ Run_Sleep /\ KeepCycleHistory

Spec == Init /\ [][Next]_vars

\* The worker thread is the only one and nothing preempts it for ever; every
\* call it makes returns (the transports have their own timeouts), so run
\* keeps taking steps.
SpecLive == Init /\ [][Next]_vars /\ WF_vars(Next)

----------------------------------------------------------------------------
(* The program as main starts it, with the history of the last ended cycle   *)

NextCycles ==
  \/ Updater_new(MainArgs.poll_rate, MainArgs.api_key)
  \/ \E addr \in ResolvedAddrs : Run_CheckIpOk(addr)
  \/ Run_CheckIpErr /\ RecordCycle
  \/ \E reply \in FetchReplies : Run_GetRecords(reply)
  \/ Run_ForSkip
  \/ \E put_ok \in BOOLEAN : Run_ForUpdate(put_ok)
  \/ Run_Sleep /\ RecordCycle

SpecCycles == Init /\ [][NextCycles]_vars

----------------------------------------------------------------------------
(* Construction alone, over every poll_rate argument up to the bound and     *)
(* every environment                                                        *)

InitConfig == InitIn(WideEnvs, {<<>>})

NextConfig ==
  \/ \E a \in WideNewArgs : Updater_new(a.poll_rate, a.api_key)
  \/ CloudFlareApi_default

SpecConfig == InitConfig /\ [][NextConfig]_vars

----------------------------------------------------------------------------
(* Record::eq alone, over pairs of records that differ in any field         *)

RecordValues ==
  [content : {IP_5, IP_9, IP_LOOP6},
   name : {"home.example.com", "www.example.com"},
   record_type : {"A", "AAAA"},
   ttl : {1, 300},
   proxied : BOOLEAN,
   zone_id : {"zone_1", "zone_2"},
   record_id : {None, Some("rec_1"), Some("rec_2")}]

\* a.eq(&b)
Eq_call(a, b) ==
  /\ eq_call' = <<[self |-> a, other |-> b, result |-> Record_eq(a, b)]>>
  /\ UNCHANGED <<pc, env, env_reads, ctor, config, records, remote, current_ip,
                 snapshot, idx, log, prev_sleeps, prev_cycle, last_fetch>>

InitEq == InitIn({[poll |-> Unset(<<>>), key |-> Unset(""), zone |-> Unset("")]}, {<<>>})

\* one call, on any pair of records
NextEq ==
  /\ eq_call = <<>>
  /\ \E a \in RecordValues, b \in RecordValues : Eq_call(a, b)

SpecEq == InitEq /\ [][NextEq]_vars

----------------------------------------------------------------------------
(* The body of run over a snapshot of two records that differ in nothing    *)
(* but ttl, proxied, record_type and zone_id, as an implementation of        *)
(* ApiTrait may return them; no record is known to a zone, so every PUT      *)
(* fails.                                                                    *)

\* the addresses check_ip may give here: each content a record may hold
DiffAddrs == {[ip |-> i, port |-> 54321] : i \in {IP_5, IP_9, IP_LOOP6}}

\* lines 26 and 33: check_ip gives addr, get_records gives <<a, b>>
Diff_get_records(a, b, addr) ==
  /\ pc = "start"
  /\ current_ip' = addr
  /\ records' = <<a, b>>
  /\ snapshot' = records'
  /\ idx' = 1
  /\ log' = <<Call("check_ip", "ok", <<>>, <<>>, 0, 0),
              Call("get_records", "success", <<>>, <<>>, 0, 0)>>
  /\ pc' = AfterPosition(snapshot', 1)
  /\ UNCHANGED <<env, env_reads, ctor, config, remote, prev_sleeps, eq_call,
                 prev_cycle, last_fetch>>

\* the records that differ from a in nothing but ttl, proxied, record_type and
\* zone_id
SameButUncompared(a) ==
  { [a EXCEPT !.ttl = t, !.proxied = p, !.record_type = ty, !.zone_id = z] :
      t \in {1, 300}, p \in BOOLEAN, ty \in {"A", "AAAA"}, z \in {"zone_1", "zone_2"} }

NextDiff ==
  \/ /\ pc = "start"
     /\ \E a \in RecordValues, addr \in DiffAddrs :
          \E b \in SameButUncompared(a) : Diff_get_records(a, b, addr)
  \/ Run_ForSkip
  \/ \E put_ok \in BOOLEAN : Run_ForUpdate(put_ok)

SpecDiff == InitEq /\ [][NextDiff]_vars

----------------------------------------------------------------------------
(* The provider called directly, as the tests of cloudflare/mod.rs do: a     *)
(* CloudFlareApi built by new or by default, then get_records and            *)
(* update_record in any order.  log holds the last call.                     *)

\* ApiTrait::new for CloudFlareApi, the value kept by the caller
CloudFlareApi_new(poll_rate, api_key) ==
  /\ pc = "start"
  /\ LET made == CloudFlareConfig_new(poll_rate, api_key, env, env_reads)
     IN  /\ config' = made.config
         /\ env_reads' = made.reads
  /\ records' = <<>>
  /\ ctor' = [kind |-> "new", poll_rate |-> poll_rate, api_key |-> api_key]
  /\ pc' = "standalone"
  /\ UNCHANGED <<env, remote, current_ip, snapshot, idx, log, prev_sleeps, eq_call,
                 prev_cycle, last_fetch>>

\* the record of create_mock_record, with an address of the model; its id
\* names no record of the zone
MockRecord ==
  [content |-> IP_5, name |-> "test.example.com", record_type |-> "A", ttl |-> 1,
   proxied |-> FALSE, zone_id |-> "test_zone_id", record_id |-> Some("record123")]

\* the records a caller passes to update_record: the mock record, the cached
\* records, each with its content replaced by an address, and each without id
DirectRecords ==
  {MockRecord}
    \cup {records[k] : k \in 1..Len(records)}
    \cup {update_content(records[k], ip_of(a)) : k \in 1..Len(records), a \in ResolvedAddrs}
    \cup {[records[k] EXCEPT !.record_id = None] : k \in 1..Len(records)}

\* api.get_records()
Api_get_records(reply) ==
  /\ pc = "standalone"
  /\ records' = get_records(config, records, reply, remote)
  /\ last_fetch' = IF get_records_outcome(config, reply) = "success"
                    THEN remote ELSE last_fetch
  /\ log' = <<Call("get_records", get_records_outcome(config, reply), <<>>, <<>>, 0, 0)>>
  /\ UNCHANGED <<pc, env, env_reads, ctor, config, remote, current_ip, snapshot, idx,
                 prev_sleeps, eq_call, prev_cycle>>

\* api.update_record(&record)
Api_update_record(record, put_ok) ==
  /\ pc = "standalone"
  /\ put_ok => put_can_succeed(config, remote, record)
  /\ remote' = IF put_ok THEN zone_put(remote, record) ELSE remote
  /\ log' = <<Call("update_record", IF put_ok THEN "ok" ELSE "failed", <<record>>,
                   <<update_record(config, record, put_ok)>>, 0, 0)>>
  /\ UNCHANGED <<pc, env, env_reads, ctor, config, records, current_ip, snapshot, idx,
                 prev_sleeps, eq_call, prev_cycle, last_fetch>>

NextApi ==
  \/ \E a \in NewArgs : CloudFlareApi_new(a.poll_rate, a.api_key)
  \/ CloudFlareApi_default
  \/ \E reply \in FetchReplies : Api_get_records(reply)
  \/ \E record \in DirectRecords, put_ok \in BOOLEAN : Api_update_record(record, put_ok)

SpecApi == Init /\ [][NextApi]_vars

----------------------------------------------------------------------------
(* Properties *)

Last(l) == l[Len(l)]

\* the positions of the log at which update_record was called for snapshot[k]
UpdatesOf(k) ==
  {j \in 1..Len(log) : log[j].op = "update_record" /\ log[j].pos = k}

\* the for loop is running or has just ended; positions below idx are done
InCycle == pc \in {"for", "sleep"}

\* this step is a call of check_ip that fails
ResolveFailsStep ==
  /\ pc = "check_ip"
  /\ log' = <<Call("check_ip", "err", <<>>, <<>>, 0, 0)>>

\* this step is a call of get_records that fails
FetchFailsStep ==
  /\ pc = "get_records"
  /\ Len(log') = Len(log) + 1
  /\ Last(log').op = "get_records"
  /\ Last(log').out # "success"

\* what the environment gives for the poll rate: CLOUDFLARE_POLL_RATE when it
\* is set to a number, 300 otherwise
EnvPollRate ==
  IF env.poll.set /\ parse_usize(env.poll.val).ok
  THEN parse_usize(env.poll.val).val
  ELSE 300

\* what the environment gives for the credential: CLOUDFLARE_API_KEY, or the
\* empty string when it is not set
EnvApiKey == IF env.key.set THEN env.key.val ELSE ""

\* C1: between any two consecutive calls of check_ip there is exactly one
\* sleep, also when the first of the two calls failed.
C1_OneSleepBetweenResolves ==
  prev_sleeps # <<>> => prev_sleeps[1] = 1

\* C2: a call of check_ip that fails is followed by no record work: the next
\* call of run is check_ip again, the log of the cycle holds neither
\* get_records nor update_record, and the cached record set and the zone are
\* as they were.
C2_FailedResolveNoRecordWork ==
  [][ResolveFailsStep =>
       /\ pc' = "check_ip"
       /\ CountOp(log', "get_records") = 0
       /\ CountOp(log', "update_record") = 0
       /\ records' = records
       /\ remote' = remote]_vars

C2_Witness ==
  /\ pc = "check_ip"
  /\ log = <<Call("check_ip", "err", <<>>, <<>>, 0, 0)>>
  /\ records # <<>>
  /\ prev_sleeps = <<1>>

\* C3: in a cycle that resolved address X, for every record r of the snapshot
\* the for loop has passed whose content is not X, update_record was called
\* exactly once for r, with a candidate whose content is X and whose
\* record_id, name, record_type, ttl, proxied and zone_id are those of r.
C3_OneUpdatePerMismatch ==
  InCycle =>
    \A k \in 1..(idx - 1) :
      snapshot[k].content # current_ip.ip =>
        /\ Cardinality(UpdatesOf(k)) = 1
        /\ \A j \in UpdatesOf(k) :
             /\ Len(log[j].arg) = 1
             /\ log[j].arg[1].content = current_ip.ip
             /\ log[j].arg[1].record_id = snapshot[k].record_id
             /\ log[j].arg[1].name = snapshot[k].name
             /\ log[j].arg[1].record_type = snapshot[k].record_type
             /\ log[j].arg[1].ttl = snapshot[k].ttl
             /\ log[j].arg[1].proxied = snapshot[k].proxied
             /\ log[j].arg[1].zone_id = snapshot[k].zone_id

C3_Witness ==
  /\ pc = "sleep"
  /\ Len(snapshot) = 2
  /\ snapshot[1].content # current_ip.ip
  /\ snapshot[2].content # current_ip.ip
  /\ snapshot[1].record_type = "A"
  /\ Cardinality(UpdatesOf(1)) = 1
  /\ Cardinality(UpdatesOf(2)) = 1

\* C4: in a cycle that resolved address X, for every record r of the snapshot
\* the for loop has passed whose content is X, update_record was not called.
C4_NoUpdateOnMatch ==
  InCycle =>
    \A k \in 1..(idx - 1) :
      snapshot[k].content = current_ip.ip => UpdatesOf(k) = {}

C4_Witness ==
  /\ pc = "sleep"
  /\ Len(snapshot) = 2
  /\ snapshot[1].content = current_ip.ip
  /\ snapshot[2].content # current_ip.ip
  /\ UpdatesOf(1) = {}
  /\ UpdatesOf(2) # {}

\* C5: a.eq(b) is true exactly when content, record_id and name of the two
\* records are equal, whatever their ttl, proxied, record_type and zone_id.
C5_EqIsContentIdName ==
  eq_call # <<>> =>
    LET a == eq_call[1].self
        b == eq_call[1].other
    IN  eq_call[1].result <=>
          (a.content = b.content /\ a.record_id = b.record_id /\ a.name = b.name)

C5_Witness ==
  /\ eq_call # <<>>
  /\ eq_call[1].result
  /\ eq_call[1].self.ttl # eq_call[1].other.ttl
  /\ eq_call[1].self.proxied # eq_call[1].other.proxied
  /\ eq_call[1].self.record_type # eq_call[1].other.record_type
  /\ eq_call[1].self.zone_id # eq_call[1].other.zone_id

\* C6: however the provider was constructed (CloudFlareApi::new or the derived
\* Default) and whatever it has been called for since, get_poll_rate() is at
\* least 60.
C6_PollRateAtLeastFloor ==
  pc # "start" => get_poll_rate(config) >= 60

\* C7: CloudFlareConfig::new(p, key) sets poll_rate to 60 for every p < 60 and
\* to p for every p >= 60.
C7_NewClampsPollRate ==
  ctor.kind = "new" =>
    config.poll_rate = (IF ctor.poll_rate < 60 THEN 60 ELSE ctor.poll_rate)

C7_Witness ==
  /\ ctor.kind = "new"
  /\ ctor.poll_rate = 59
  /\ config.poll_rate = 60
  /\ env.poll = SetTo(<<"6", "0", "0">>)

\* C8: CloudFlareConfig::new with an empty credential argument stores the
\* environment's credential; with a non-empty argument it stores the argument
\* and does not read the environment's credential.
C8_KeyArgumentOrEnvironment ==
  ctor.kind = "new" =>
    IF ctor.api_key = ""
    THEN config.api_key = EnvApiKey
    ELSE config.api_key = ctor.api_key /\ env_reads.key = 0

\* C9: constructing the provider with the poll-interval argument 0 gives the
\* environment's poll rate (300 when CLOUDFLARE_POLL_RATE is not set to a
\* number), raised to the floor of 60.
C9_PollRateFallsBackToEnvironment ==
  (ctor.kind = "new" /\ ctor.poll_rate = 0) =>
    config.poll_rate = Max(EnvPollRate, 60)

\* C10: a call of get_records that fails leaves the cached record set as it
\* was and returns that set, and run goes on with it.
C10_FailedFetchKeepsCache ==
  [][FetchFailsStep =>
       /\ records' = records
       /\ snapshot' = records
       /\ pc' = AfterPosition(records, 1)]_vars

C10_Witness ==
  /\ log # <<>>
  /\ Last(log).op = "get_records"
  /\ Last(log).out = "unsuccessful"
  /\ records # <<>>
  /\ snapshot = records
  /\ filter_map_results(remote) # records

\* the positions of a response's result whose content is the text of an address
Parseable(result) == {k \in 1..Len(result) : parse_ip(result[k].content).ok}

\* the last call of run is a get_records that took the response
JustFetched ==
  /\ log # <<>>
  /\ Last(log).op = "get_records"
  /\ Last(log).out = "success"

\* C11: after a successful fetch the cached record set holds exactly the
\* response's entries whose content parses, in the response's order, each with
\* the entry's fields and record_id = Some(id); the other entries are dropped.
C11_FetchKeepsParseableInOrder ==
  JustFetched =>
    /\ Len(records) = Cardinality(Parseable(last_fetch))
    /\ \A k \in Parseable(last_fetch) :
         LET j == Cardinality({m \in Parseable(last_fetch) : m <= k})
         IN  /\ records[j].content = parse_ip(last_fetch[k].content).val
             /\ records[j].name = last_fetch[k].name
             /\ records[j].record_type = last_fetch[k].type
             /\ records[j].ttl = last_fetch[k].ttl
             /\ records[j].proxied = last_fetch[k].proxied
             /\ records[j].zone_id = last_fetch[k].zone_id
             /\ records[j].record_id.some
             /\ records[j].record_id.val = last_fetch[k].id

C11_Witness ==
  /\ JustFetched
  /\ Len(last_fetch) = 2
  /\ ~parse_ip(last_fetch[1].content).ok
  /\ last_fetch[2].content = "0:0:0:0:0:0:0:1"
  /\ Len(records) = 1
  /\ records[1].content = IP_LOOP6
  /\ records[1].record_id = Some("rec_2")

\* C12: update_record returns a record equal in every field to the record it
\* was given, when the PUT succeeds and when it fails (the key is no header
\* value, the transport fails, the status is not 2xx); the provider stays
\* usable after the call.
C12_UpdateReturnsItsInput ==
  \A j \in 1..Len(log) :
    log[j].op = "update_record" =>
      /\ Len(log[j].arg) = 1
      /\ log[j].ret = log[j].arg
      /\ pc = "standalone"

C12_Witness ==
  /\ log # <<>>
  /\ log[1].op = "update_record"
  /\ log[1].out = "failed"
  /\ ~header_value_ok(config.api_key)
  /\ log[1].ret = <<MockRecord>>

\* run is at one of its positions (an Updater owns the provider)
InRun == pc \in {"check_ip", "get_records", "for", "sleep"}

\* the last call of run is check_ip: a cycle has just begun
CycleBegun == log # <<>> /\ Last(log).op = "check_ip"

\* C13: run has no terminal state: whatever has failed, every state of run
\* has a successor, and from every state of run a cycle begins again (check_ip
\* is called).
C13_RunNeverStops ==
  /\ [](InRun => ENABLED Next)
  /\ (InRun ~> CycleBegun)

C13_Witness ==
  /\ pc = "check_ip"
  /\ prev_sleeps = <<0>>
  /\ Len(log) >= 4
  /\ log[2].out \notin {"success"}
  /\ \E j \in 1..Len(log) : log[j].op = "update_record" /\ log[j].out = "failed"
  /\ Last(log).op = "sleep"

\* the for loop of a cycle has ended whose check_ip gave the address of the
\* cycle before and whose get_records took a response
SameAddressFetchedAgain ==
  /\ pc = "sleep"
  /\ prev_cycle # <<>>
  /\ prev_cycle[1].resolved
  /\ current_ip.ip = prev_cycle[1].ip
  /\ Len(log) >= 2
  /\ log[2].op = "get_records"
  /\ log[2].out = "success"

\* every candidate whose update failed in the cycle before was passed to
\* update_record again in this cycle
FailedUpdatesRetried ==
  \A i \in 1..Len(prev_cycle[1].failed) :
    \E j \in 1..Len(log) :
      log[j].op = "update_record" /\ log[j].arg = <<prev_cycle[1].failed[i]>>

\* C14 as claimed: if update_record failed for a record in one cycle and the
\* next cycle resolves the same address and its fetch succeeds, update_record
\* is called again for that record with the same candidate.
C14_FailedUpdateRetried ==
  SameAddressFetchedAgain => FailedUpdatesRetried

\* C14, amended: the same, for a failed update in a cycle whose own fetch
\* succeeded, so that the record it was for is the provider's record.
C14_FailedUpdateOfFreshRecordRetried ==
  (SameAddressFetchedAgain /\ prev_cycle[1].fetched) => FailedUpdatesRetried

C14_Witness ==
  /\ SameAddressFetchedAgain
  /\ prev_cycle[1].fetched
  /\ Len(prev_cycle[1].failed) = 2
  /\ FailedUpdatesRetried
  /\ \E j \in 1..Len(log) : log[j].op = "update_record" /\ log[j].out = "failed"
  /\ \E j \in 1..Len(log) : log[j].op = "update_record" /\ log[j].out = "ok"

\* the step is a call of update_record by the loop
UpdateStep ==
  /\ log' # log
  /\ log' # <<>>
  /\ Last(log').op = "update_record"

\* the step is a get_records that took a success response
FetchedStep ==
  /\ log' # log
  /\ log' # <<>>
  /\ Last(log').op = "get_records"
  /\ Last(log').out = "success"

\* C15: a call of update_record, ended well or not, leaves the provider's
\* cache and its configuration as they were, and the cache changes in no step
\* but a get_records that took a success response.
C15_UpdateLeavesCacheAndConfig ==
  [][ /\ UpdateStep => (records' = records /\ config' = config)
      /\ records' # records => FetchedStep ]_vars

C15_Witness ==
  /\ log # <<>>
  /\ Last(log).op = "update_record"
  /\ Last(log).out = "ok"
  /\ records[Last(log).pos] # Last(log).ret[1]
  /\ get_content(records[Last(log).pos]) # get_content(Last(log).ret[1])
  /\ remote[Last(log).pos].content = ip_to_string(get_content(Last(log).ret[1]))
  /\ config.poll_rate >= MIN_POLL_RATE
  /\ \E j \in 1..Len(log) : log[j].op = "update_record" /\ log[j].out = "failed"

\* the positions of the log at which update_record was called
UpdateEntries == {j \in 1..Len(log) : log[j].op = "update_record"}

\* the log is the log of a cycle whose check_ip gave an address
ResolvedCycle ==
  /\ log # <<>>
  /\ log[1].op = "check_ip"
  /\ log[1].out = "ok"

\* C16: in a cycle whose check_ip gives an address the calls are one check_ip,
\* then one get_records, then update_record for the mismatching records of
\* the snapshot in the snapshot's order, each once, then one sleep, and the
\* next check_ip comes only after that sleep.
C16_CycleOrder ==
  ResolvedCycle =>
    /\ \A j \in 1..Len(log) : log[j].op = "check_ip" <=> j = 1
    /\ \A j \in 1..Len(log) : log[j].op = "get_records" <=> j = 2
    /\ \A j \in 3..Len(log) : log[j].op \in {"update_record", "sleep"}
    /\ \A j \in 1..Len(log) : log[j].op = "sleep" => (j = Len(log) /\ j >= 3)
    /\ \A i, j \in UpdateEntries : i < j => log[i].pos < log[j].pos
    /\ pc = "get_records" <=> Len(log) = 1
    /\ pc = "check_ip" <=> Last(log).op = "sleep"
    /\ InCycle =>
         /\ \A j \in UpdateEntries :
              /\ log[j].pos \in 1..(idx - 1)
              /\ must_update(snapshot[log[j].pos], current_ip)
              /\ log[j].arg = <<record_clone_for(snapshot[log[j].pos], current_ip)>>
         /\ \A k \in 1..(idx - 1) :
              must_update(snapshot[k], current_ip) => UpdatesOf(k) # {}

C16_Witness ==
  /\ ResolvedCycle
  /\ pc = "check_ip"
  /\ Len(log) = 5
  /\ log[2].op = "get_records"
  /\ log[3].op = "update_record" /\ log[3].pos = 1
  /\ log[4].op = "update_record" /\ log[4].pos = 2
  /\ log[5].op = "sleep"

\* update_record was called for the record at position k of the snapshot
Updated(k) == UpdatesOf(k) # {}

\* C17: whether update_record is called for a record of the snapshot is
\* whether its content differs from the resolved IP: two records that differ
\* only in ttl, proxied, record_type or zone_id get the same decision, and the
\* address family of the record's type plays no part.
C17_UpdateDependsOnContentOnly ==
  (pc = "sleep" /\ Len(snapshot) = 2) =>
    /\ \A k \in 1..2 : Updated(k) <=> get_content(snapshot[k]) # ip_of(current_ip)
    /\ Updated(1) <=> Updated(2)

C17_Witness ==
  /\ pc = "sleep"
  /\ Len(snapshot) = 2
  /\ snapshot[1].record_type = "AAAA" /\ snapshot[2].record_type = "A"
  /\ snapshot[1].ttl # snapshot[2].ttl
  /\ snapshot[1].proxied # snapshot[2].proxied
  /\ snapshot[1].zone_id # snapshot[2].zone_id
  /\ get_content(snapshot[1]) = IP_LOOP6
  /\ ip_of(current_ip) = IP_9
  /\ Updated(1) /\ Updated(2)
  /\ \A j \in UpdateEntries : get_content(log[j].arg[1]) = IP_9

\* C18: the snapshot the loop diffs is the provider's cache after the cycle's
\* get_records, and the cache is the parseable records of the last fetch that
\* succeeded, none before the first; so after a failed fetch update_record is
\* called for every stale record whose cached content differs from the
\* resolved IP, whatever the provider holds by now.
C18_SnapshotIsLastFetch ==
  /\ records = filter_map_results(last_fetch)
  /\ InCycle =>
       /\ snapshot = records
       /\ \A k \in 1..(idx - 1) :
            Updated(k) <=> get_content(snapshot[k]) # ip_of(current_ip)

C18_Witness ==
  /\ InCycle
  /\ log[2].op = "get_records"
  /\ log[2].out # "success"
  /\ snapshot # filter_map_results(remote)
  /\ \E j \in UpdateEntries, k \in 1..Len(remote) :
       /\ log[j].out = "failed"
       /\ get_id(log[j].arg[1]) = Some(remote[k].id)
       /\ get_content(snapshot[log[j].pos]) # ip_of(current_ip)
       /\ remote[k].content = ip_to_string(ip_of(current_ip))

\* so far in this cycle check_ip gave an address, get_records took a success
\* response and every update_record ended well
GoodCycleSoFar ==
  /\ ResolvedCycle
  /\ Len(log) >= 2
  /\ log[2].out = "success"
  /\ \A j \in UpdateEntries : log[j].out = "ok"

\* the cycle before was such a cycle and resolved the address of this one
GoodCycleBefore ==
  /\ prev_cycle # <<>>
  /\ prev_cycle[1].resolved
  /\ prev_cycle[1].fetched
  /\ prev_cycle[1].failed = <<>>
  /\ prev_cycle[1].ip = ip_of(current_ip)

\* every record of the zone whose content is an address holds the resolved one
Converged ==
  \A k \in 1..Len(remote) :
    parse_ip(remote[k].content).ok =>
      parse_ip(remote[k].content).val = ip_of(current_ip)

\* C19: at the end of a cycle in which the resolve, the fetch and every
\* update succeeded, every record of the zone whose content is an address
\* holds the resolved address, and a cycle that follows it with the same
\* address and a successful fetch calls update_record for no record.
C19_Converges ==
  /\ (pc = "sleep" /\ GoodCycleSoFar) => Converged
  /\ (InCycle /\ GoodCycleSoFar /\ GoodCycleBefore) => UpdateEntries = {}

C19_Witness ==
  /\ pc = "sleep"
  /\ GoodCycleSoFar
  /\ GoodCycleBefore
  /\ UpdateEntries = {}
  /\ Len(snapshot) = 2
  /\ ip_of(current_ip) = IP_9
  /\ \E k \in 1..Len(remote) :
       /\ remote[k].ttl = 1
       /\ remote[k].type = "A"
       /\ remote[k].content = "203.0.113.9"
  /\ \E k \in 1..Len(remote) :
       /\ remote[k].type = "AAAA"
       /\ remote[k].content = "203.0.113.9"

====
